---------------------------- MODULE Spec2Model ----------------------------
(***************************************************************************)
(* A model of the f1-elo repository: the Elo rating engine                 *)
(* (F1EloRating.update_ratings, in its two versions src/elo.py and        *)
(* src/elo_calculator.py), the historical data collector, the SQLite       *)
(* rating store (DatabaseManager), the pipeline process_historical_data,   *)
(* the script src/elo.py main(), and the three triggers of src/app.py.     *)
(*                                                                         *)
(* Floating point numbers are modelled in fixed point: a rating is an      *)
(* integer number of 1/RatingScale rating points, a score or probability   *)
(* an integer number of 1/ProbScale.  The float value nan and the Python   *)
(* value None are values of their own.                                     *)
(***************************************************************************)
EXTENDS Integers, Sequences, FiniteSets, TLC

-----------------------------------------------------------------------------
(* Bounds of the model *)

\* rows of one event handed to update_ratings in the engine specification
MaxRows == 3
\* greatest finishing position an upstream record carries
MaxPos == 3
\* entry point invocations (script runs, requests, cron firings) in a behaviour
MaxRuns == 2
\* events in the schedule of a season the providers know
RacesPerYear == 2

-----------------------------------------------------------------------------
(* Program constants *)

initial_rating == 1500
k_factor == 24
\* "if year >= 2018": seasons served by fastf1, earlier ones by ergast
FastF1Since == 2018
\* process_historical_data(start_year=2018), as every caller passes it
app_start_year == 2018
\* F1DataCollector(start_year=2014, end_year=2025) of src/elo.py main()
main_start_year == 2014
main_end_year == 2025
\* datetime.now().year: the season after the first fastf1 season
current_year == FastF1Since + 1

\* fixed point resolution of a float rating and of a float score
RatingScale == 100
ProbScale == 60000

Drivers == {"A", "B", "C"}

-----------------------------------------------------------------------------
(* Values *)

\* a float that is a number, the float nan, and Python's None
Num(x) == [kind |-> "num", v |-> x]
NaN == [kind |-> "nan", v |-> 0]
NoneValue == [kind |-> "none", v |-> 0]

\* a missing Driver cell and a missing (NaN) Position cell of a result frame
NoDriver == "NA"
NoPosition == 0

EmptyMap == [d \in {} |-> NaN]

Row(d, p) == [Driver |-> d, Position |-> p]

\* DataFrame.dropna(subset=['Driver', 'Position'])
DropNa(rows) ==
    SelectSeq(rows, LAMBDA r : r.Driver # NoDriver /\ r.Position # NoPosition)

\* race_results['Driver'].unique()
UniqueDrivers(rows) == {rows[i].Driver : i \in 1..Len(rows)}

-----------------------------------------------------------------------------
(* Arithmetic of the rating engine *)

\* 1 / (1 + 10 ** (x / 400)) at x = 0, 50, ..., 800 rating points, in 1/ProbScale
LogisticTable ==
    <<30000, 25712, 21596, 17797, 14415, 11501, 9059, 7060, 5455,
      4185, 3194, 2428, 1839, 1390, 1048, 790, 594>>

TableStep == 50 * RatingScale

\* 1 / (1 + 10 ** (diff / 400)) for diff >= 0 in rating units: the table,
\* interpolated linearly between its entries and constant beyond its last
LogisticUp(diff) ==
    LET i == diff \div TableStep
    IN  IF i + 2 > Len(LogisticTable)
        THEN LogisticTable[Len(LogisticTable)]
        ELSE LogisticTable[i + 1]
             - ((LogisticTable[i + 1] - LogisticTable[i + 2])
                * (diff - i * TableStep)) \div TableStep

\* 1 / (1 + 10 ** (diff / 400)); f(-x) = 1 - f(x)
Logistic(diff) ==
    IF diff >= 0 THEN LogisticUp(diff) ELSE ProbScale - LogisticUp(0 - diff)

\* 1 / (1 + 10 ** ((opp - own) / 400)) on rating values: None operands raise
\* TypeError, a nan operand gives nan
PairExpected(opp, own) ==
    IF opp.kind = "none" \/ own.kind = "none" THEN NoneValue
    ELSE IF opp.kind = "nan" \/ own.kind = "nan" THEN NaN
    ELSE Num(Logistic(opp.v - own.v))

RECURSIVE SumV(_)
SumV(s) == IF s = <<>> THEN 0 ELSE Head(s).v + SumV(Tail(s))

HasKind(s, k) == \E i \in 1..Len(s) : s[i].kind = k

\* np.mean(list): nan for the empty list, nan if an element is nan
NpMean(s) ==
    IF s = <<>> \/ HasKind(s, "nan") THEN NaN ELSE Num(SumV(s) \div Len(s))

\* 1 - (position - 1) / (total_drivers - 1), in 1/ProbScale
ScoreOf(position, total_drivers) ==
    ProbScale - ((position - 1) * ProbScale) \div (total_drivers - 1)

\* max(1, min(position, total_drivers))
Clamp(position, total_drivers) ==
    LET m == IF position < total_drivers THEN position ELSE total_drivers
    IN  IF m > 1 THEN m ELSE 1

\* F1EloRating.normalize_race_position of src/elo.py
normalize_race_position(position, total_drivers) ==
    ScoreOf(Clamp(position, total_drivers), total_drivers)

\* self.k_factor * (actual_score - expected_score), in rating units
RatingChange(actual, expected) ==
    IF expected.kind = "nan" THEN NaN
    ELSE Num((k_factor * RatingScale * (actual - expected.v)) \div ProbScale)

\* rating + change on floats
AddRating(rating, change) ==
    IF rating.kind = "nan" \/ change.kind = "nan" THEN NaN
    ELSE Num(rating.v + change.v)

-----------------------------------------------------------------------------
(* F1EloRating.update_ratings *)

InitialRating == Num(initial_rating * RatingScale)

\* "for driver in unique(): if driver not in self.ratings: ... = initial_rating"
InitNewDrivers(ratings, rows) ==
    [d \in (DOMAIN ratings) \cup UniqueDrivers(rows) |->
        IF d \in DOMAIN ratings THEN ratings[d] ELSE InitialRating]

\* race_results[race_results['Driver'] != driver]
Opponents(rows, driver) == SelectSeq(rows, LAMBDA r : r.Driver # driver)

\* the outcome of a call: the rating map it leaves, the exception it raised
\* ("" for none) and, per processed row, the scores it computed
Outcome(ratings, raised, trace) ==
    [ratings |-> ratings, raised |-> raised, trace |-> trace]

TraceRow(driver, actual, expected) ==
    [Driver |-> driver, actual |-> actual, expected |-> expected]

\* one pass of "for _, row in race_results.iterrows()" of
\* src/elo_calculator.py on row i, self.ratings being st.ratings
CalcRowStep(st, rows, i) ==
    LET driver == rows[i].Driver
        opponents == Opponents(rows, driver)
        actual_score == ScoreOf(rows[i].Position, Len(rows))
        terms == [j \in 1..Len(opponents) |->
                    PairExpected(st.ratings[opponents[j].Driver],
                                 st.ratings[driver])]
        expected_score == NpMean(terms)
    IN  IF HasKind(terms, "none") \/ st.ratings[driver].kind = "none"
        THEN Outcome(st.ratings, "TypeError", st.trace)
        ELSE Outcome(
               [st.ratings EXCEPT ![driver] =
                   AddRating(@, RatingChange(actual_score, expected_score))],
               "",
               Append(st.trace, TraceRow(driver, actual_score, expected_score)))

RECURSIVE CalcRowLoop(_, _, _)
CalcRowLoop(st, rows, i) ==
    IF i > Len(rows) \/ st.raised # "" THEN st
    ELSE CalcRowLoop(CalcRowStep(st, rows, i), rows, i + 1)

\* F1EloRating.update_ratings of src/elo_calculator.py
update_ratings(ratings, race_results) ==
    LET rows == DropNa(race_results)
    IN  IF Len(rows) < 2 THEN Outcome(ratings, "", <<>>)
        ELSE CalcRowLoop(Outcome(InitNewDrivers(ratings, rows), "", <<>>), rows, 1)

\* sum(expected_scores) / len(expected_scores)
SumOverLen(s) ==
    IF HasKind(s, "nan") THEN NaN ELSE Num(SumV(s) \div Len(s))

\* one pass of the row loop of src/elo.py
EloRowStep(st, rows, i) ==
    LET driver == rows[i].Driver
        opponents == Opponents(rows, driver)
        actual_score == normalize_race_position(rows[i].Position, Len(rows))
        expected_scores == [j \in 1..Len(opponents) |->
                    PairExpected(st.ratings[opponents[j].Driver],
                                 st.ratings[driver])]
    IN  IF HasKind(expected_scores, "none")
        THEN Outcome(st.ratings, "TypeError", st.trace)
        ELSE IF Len(expected_scores) = 0
        THEN Outcome(st.ratings, "ZeroDivisionError", st.trace)
        ELSE LET expected_score == SumOverLen(expected_scores)
             IN  Outcome(
                   [st.ratings EXCEPT ![driver] =
                       AddRating(@, RatingChange(actual_score, expected_score))],
                   "",
                   Append(st.trace,
                          TraceRow(driver, actual_score, expected_score)))

RECURSIVE EloRowLoop(_, _, _)
EloRowLoop(st, rows, i) ==
    IF i > Len(rows) \/ st.raised # "" THEN st
    ELSE EloRowLoop(EloRowStep(st, rows, i), rows, i + 1)

\* F1EloRating.update_ratings of src/elo.py
elo_update_ratings(ratings, race_results) ==
    LET rows == DropNa(race_results)
    IN  IF Len(rows) < 2 THEN Outcome(ratings, "", <<>>)
        ELSE EloRowLoop(Outcome(InitNewDrivers(ratings, rows), "", <<>>), rows, 1)

-----------------------------------------------------------------------------
(* DatabaseManager: the SQLite table driver_ratings *)

\* a NULL cell
SqlNull == [kind |-> "null", v |-> 0]
\* a last_updated text, ordered as the ISO-8601 strings are
Timestamp(t) == [kind |-> "ts", v |-> t]
Never == [kind |-> "never", v |-> 0]

\* binding a Python float or None to a REAL column: SQLite stores nan as NULL
ToSql(value) == IF value.kind \in {"nan", "none"} THEN SqlNull ELSE value

StoreRow(rating, time) == [elo_rating |-> rating, last_updated |-> time]

\* the table a connection reads: the committed rows, its own uncommitted
\* writes over them
Visible(store, pending) ==
    [d \in (DOMAIN store) \cup (DOMAIN pending) |->
        IF d \in DOMAIN pending THEN pending[d] ELSE store[d]]

\* DatabaseManager.get_ratings followed by set_index('Driver')['Elo Rating']
\* .to_dict(): the rows as a dict.  A NULL rating is read as None; the
\* DataFrame constructor turns None into nan in a column that holds a float
\* and leaves it None in a column that holds none.
get_ratings(store) ==
    LET isFloat == \E d \in DOMAIN store : store[d].elo_rating.kind = "num"
    IN  [d \in DOMAIN store |->
            IF store[d].elo_rating.kind = "null"
            THEN (IF isFloat THEN NaN ELSE NoneValue)
            ELSE store[d].elo_rating]

MaxOf(S) == CHOOSE x \in S : \A y \in S : y <= x

\* cursor.fetchone() after SELECT MAX(last_updated): an aggregate query
\* returns one row, holding NULL (None) when the table has no rows
SelectMaxLastUpdated(store) ==
    IF DOMAIN store = {} THEN <<NoneValue>>
    ELSE <<Timestamp(MaxOf({store[d].last_updated : d \in DOMAIN store}))>>

\* DatabaseManager.get_last_update_time: result[0] if result else "Never"
get_last_update_time(store) ==
    LET result == SelectMaxLastUpdated(store)
    IN  IF Len(result) > 0 THEN result[1] ELSE Never

\* F1EloRating.get_driver_ratings: the ratings as a frame; a None among floats
\* becomes nan
get_driver_ratings(ratings) ==
    [d \in DOMAIN ratings |->
        IF ratings[d].kind = "none" THEN NaN ELSE ratings[d]]

\* sort_values('Elo Rating', ascending=False): rating a sorts strictly before
\* rating b (nan sorts last, equal ratings in either order)
SortsBefore(a, b) ==
    \/ a.kind = "num" /\ b.kind # "num"
    \/ a.kind = "num" /\ b.kind = "num" /\ a.v > b.v

\* the rows of the frame that iterrows() may yield next
NextRows(frame) ==
    {d \in DOMAIN frame : \A e \in DOMAIN frame : ~SortsBefore(frame[e], frame[d])}

\* the upsert on a connection in autocommit mode: written at once
ExecuteUpsertAutocommit(store, pending, driver, rating, time) ==
    <<[d \in (DOMAIN store) \cup {driver} |->
          IF d = driver THEN StoreRow(ToSql(rating), time) ELSE store[d]],
      pending>>

\* cursor.execute('INSERT OR REPLACE INTO driver_ratings ...') inside the
\* connection's open transaction: <<committed rows, uncommitted writes>>
ExecuteUpsert(store, pending, driver, rating, time) ==
    <<store,
      [d \in (DOMAIN pending) \cup {driver} |->
          IF d = driver THEN StoreRow(ToSql(rating), time) ELSE pending[d]]>>

\* a save that replaces the table by the rows written
ReplaceRows(store, pending) == pending

\* self.conn.commit()
CommitRows(store, pending) == Visible(store, pending)

-----------------------------------------------------------------------------
(* F1DataCollector and the providers *)

\* seasons for which the providers hold a schedule
CatalogYears == (FastF1Since - 1)..current_year

\* what the providers hold for event (year, race): the classification as
\* published, a record without a usable position included
UpstreamResults(year, race) ==
    IF year \notin CatalogYears \/ race > 2 THEN <<Row("B", NoPosition)>>
    ELSE IF year < FastF1Since
    THEN (IF race = 1 THEN <<Row("A", 1), Row("C", 2)>>
          ELSE <<Row("C", NoPosition)>>)
    ELSE IF year = FastF1Since
    THEN (IF race = 1 THEN <<Row("B", 1), Row("B", 2)>>
          ELSE <<Row("A", 1), Row("B", 2), Row("C", 3)>>)
    ELSE (IF race = 1 THEN <<Row("C", 1), Row("A", NoPosition), Row("B", 3)>>
          ELSE <<Row("A", NoPosition)>>)

\* len(schedule)
ScheduleLength(year) == IF year \in CatalogYears THEN RacesPerYear ELSE 0

\* F1DataCollector._collect_with_fastf1: the frame without its incomplete
\* rows, the empty frame on any exception
_collect_with_fastf1(year, race_number, ok) ==
    IF ~ok THEN <<>> ELSE DropNa(UpstreamResults(year, race_number))

\* F1DataCollector._collect_with_ergast: records whose position does not
\* parse are skipped, the empty frame on any exception
_collect_with_ergast(year, race_number, ok) ==
    IF ~ok THEN <<>>
    ELSE SelectSeq(UpstreamResults(year, race_number),
                   LAMBDA r : r.Driver # NoDriver /\ r.Position # NoPosition)

\* F1DataCollector.collect_race_results
collect_race_results(year, race_number, ok) ==
    IF year >= FastF1Since THEN _collect_with_fastf1(year, race_number, ok)
    ELSE _collect_with_ergast(year, race_number, ok)

\* race_results['Year'] = year; race_results['RaceNumber'] = race_num
Tagged(rows, year, race_num) ==
    [i \in 1..Len(rows) |->
        [Driver |-> rows[i].Driver, Position |-> rows[i].Position,
         Year |-> year, RaceNumber |-> race_num]]

Untagged(rows) ==
    [i \in 1..Len(rows) |-> Row(rows[i].Driver, rows[i].Position)]

\* the events of seasons first..last whose fetch can yield records
Recorded(first, last) ==
    {e \in (first..last) \X (1..RacesPerYear) :
        e[1] \in CatalogYears
        /\ collect_race_results(e[1], e[2], TRUE) # <<>>}

\* what the providers may answer during one run over first..last: the
\* seasons whose schedule request succeeds, and of these seasons the events
\* whose result request succeeds and yields records
Answers(first, last) ==
    UNION {{[sched |-> Y, res |-> E] :
               E \in SUBSET {e \in Recorded(first, last) : e[1] \in Y}} :
           Y \in SUBSET ((first..last) \cap CatalogYears)}

KeyLess(a, b) == a[1] < b[1] \/ (a[1] = b[1] /\ a[2] < b[2])

RECURSIVE SortKeys(_)
SortKeys(S) ==
    IF S = {} THEN <<>>
    ELSE LET m == CHOOSE k \in S : \A j \in S : j = k \/ KeyLess(k, j)
         IN  <<m>> \o SortKeys(S \ {m})

GroupRecord(key, rows) == [Year |-> key[1], RaceNumber |-> key[2], rows |-> rows]

\* all_races.groupby(['RaceNumber']): the seasons' events of one number merged
GroupByRaceNumber(frame) ==
    LET keys == SortKeys({<<frame[i].RaceNumber, frame[i].RaceNumber>> :
                             i \in 1..Len(frame)})
    IN  [g \in 1..Len(keys) |->
            LET rows == SelectSeq(frame, LAMBDA r : r.RaceNumber = keys[g][2])
            IN  GroupRecord(<<rows[1].Year, keys[g][2]>>, rows)]

\* all_races.groupby(['Year', 'RaceNumber']): one group per distinct key, the
\* keys in ascending order, each group the rows of its key in frame order
GroupBy(frame) ==
    LET keys == SortKeys({<<frame[i].Year, frame[i].RaceNumber>> :
                             i \in 1..Len(frame)})
    IN  [g \in 1..Len(keys) |->
            GroupRecord(keys[g],
                SelectSeq(frame, LAMBDA r : <<r.Year, r.RaceNumber>> = keys[g]))]

-----------------------------------------------------------------------------
(* State *)

VARIABLES
    engine,     \* one F1EloRating object and the call made on it
    db,         \* committed rows of table driver_ratings: driver -> row
    now,        \* the wall clock datetime.now() reads
    runs,       \* entry point invocations so far
    pc,         \* position of each caller in its handler
    upstream,   \* per caller: what the providers answer during its run
    cursor,     \* per caller: loop position of the collector
    elo,        \* per caller: elo.ratings of its F1EloRating object
    all_races,  \* per caller: the frame get_all_historical_data builds
    log,        \* per caller: the events update_ratings was invoked on
    save,       \* per caller: the save_ratings call in progress
    txn,        \* per caller: uncommitted writes of its connection
    prev,       \* the last run of the script that saved: the events it
                \* processed and the table it left
    view        \* per caller: what its handler answered

vars == <<engine, db, now, runs, pc, upstream, cursor, elo, all_races, log,
          save, txn, prev, view>>

pipeVars == <<db, now, runs, pc, upstream, cursor, elo, all_races, log,
              save, txn, prev, view>>

\* the callers: the cron job and the two routes of src/app.py, the two
\* scripts, and a client of DatabaseManager alone
AppProcs == {"scheduled_update", "force_update", "index"}
Procs == AppProcs \cup {"cli", "elo_main", "save_caller"}

-----------------------------------------------------------------------------
(* The rating engine on its own: one call of update_ratings on an object   *)
(* holding some ratings, with a result frame drawn from the bounded set.   *)

FrameRows == [Driver : Drivers \cup {NoDriver}, Position : 0..MaxPos]
Frames == UNION {[1..n -> FrameRows] : n \in 0..MaxRows}

\* ratings an object can hold before the call
Preset == [d \in Drivers |->
             Num((initial_rating + (IF d = "A" THEN 120
                                    ELSE IF d = "C" THEN 0 - 120 ELSE 0))
                 * RatingScale)]
StartRatings == {[d \in S |-> Preset[d]] : S \in SUBSET Drivers}

NoOutcome == Outcome(EmptyMap, "", <<>>)

\* what a handler answered: its status, the last_updated it rendered and the
\* table as it was when last_updated was read
NoView == [status |-> "", last_updated |-> Never, table |-> EmptyMap]

NoCursor == [year |-> 0, race |-> 0, year_results |-> <<>>]
NoSave == [rows |-> EmptyMap, current_time |-> 0]
NoAnswers == [sched |-> {}, res |-> {}]

EngineIdle ==
    [phase |-> "none", version |-> "", ratings |-> EmptyMap,
     race_results |-> <<>>, out |-> NoOutcome]

CallersInit ==
    /\ db = EmptyMap
    /\ now = 1
    /\ runs = 0
    /\ pc = [p \in Procs |-> "idle"]
    /\ upstream = [p \in Procs |-> NoAnswers]
    /\ cursor = [p \in Procs |-> NoCursor]
    /\ elo = [p \in Procs |-> EmptyMap]
    /\ all_races = [p \in Procs |-> <<>>]
    /\ log = [p \in Procs |-> <<>>]
    /\ save = [p \in Procs |-> NoSave]
    /\ txn = [p \in Procs |-> EmptyMap]
    /\ prev = [saved |-> FALSE, res |-> {}, store |-> EmptyMap]
    /\ view = [p \in Procs |-> NoView]

EngineInit ==
    /\ engine \in [phase : {"call"}, version : {""}, ratings : StartRatings,
                   race_results : Frames, out : {NoOutcome}]
    /\ CallersInit

\* elo.update_ratings(race_results) on the object of src/elo_calculator.py
CallUpdateRatings ==
    /\ engine.phase = "call"
    /\ engine' = [engine EXCEPT !.phase = "done", !.version = "elo_calculator",
                    !.out = update_ratings(engine.ratings, engine.race_results)]
    /\ UNCHANGED pipeVars

\* elo_system.update_ratings(race_result) on the object of src/elo.py
CallEloUpdateRatings ==
    /\ engine.phase = "call"
    /\ engine' = [engine EXCEPT !.phase = "done", !.version = "elo",
                    !.out = elo_update_ratings(engine.ratings, engine.race_results)]
    /\ UNCHANGED pipeVars

EngineNext == CallUpdateRatings \/ CallEloUpdateRatings

SpecEngine == EngineInit /\ [][EngineNext]_vars

-----------------------------------------------------------------------------
(* Claims about the rating engine (SpecEngine) *)

EngineRows == DropNa(engine.race_results)

\* the expected score of row i computed from the ratings as they stood before
\* the event (new drivers at the initial rating)
PreEventExpected(ratings, rows, i) ==
    LET before == InitNewDrivers(ratings, rows)
        opponents == Opponents(rows, rows[i].Driver)
    IN  NpMean([j \in 1..Len(opponents) |->
                  PairExpected(before[opponents[j].Driver],
                               before[rows[i].Driver])])

\* C1: in an event with N >= 2 finishers, every finisher's expected score is
\* computed from the ratings of the finisher and of all opponents as they
\* stood immediately before the event, never from a rating another
\* finisher's update of the same event has already changed.
C1_PreEventSnapshot ==
    (engine.phase = "done" /\ Len(EngineRows) >= 2) =>
        \A i \in 1..Len(engine.out.trace) :
            engine.out.trace[i].expected =
                PreEventExpected(engine.ratings, EngineRows, i)

\* C2: update_ratings on an event whose records name fewer than 2 distinct
\* competitors is a no-op: no competitor is inserted into the rating map and
\* no rating changes.
C2_UnderSubscribedNoOp ==
    (engine.phase = "done" /\ Cardinality(UniqueDrivers(EngineRows)) < 2) =>
        engine.out.ratings = engine.ratings

RECURSIVE SumActual(_)
SumActual(trace) ==
    IF trace = <<>> THEN 0 ELSE Head(trace).actual + SumActual(Tail(trace))

\* C10: for an event with N >= 2 records every actual score lies in [0, 1]
\* (positions being clamped to [1, N]), also when a recorded position exceeds
\* the number of records left after incomplete rows were dropped; when the
\* positions are exactly 1..N the actual scores sum to N/2.
C10_ScoresInUnitInterval ==
    (engine.phase = "done" /\ Len(EngineRows) >= 2) =>
        /\ \A i \in 1..Len(engine.out.trace) :
              /\ engine.out.trace[i].actual >= 0
              /\ engine.out.trace[i].actual <= ProbScale
        /\ ( /\ Len(engine.out.trace) = Len(EngineRows)
             /\ {EngineRows[i].Position : i \in 1..Len(EngineRows)}
                    = 1..Len(EngineRows) )
           => 2 * SumActual(engine.out.trace) = Len(EngineRows) * ProbScale

-----------------------------------------------------------------------------
(* process_historical_data of src/elo_calculator.py, run by caller p *)

\* the request for the results of event (year, race) is answered with records
FetchOk(p, year, race) ==
    \/ <<year, race>> \in upstream[p].res
    \/ <<year, race>> \notin Recorded(year, year)

\* the request for the schedule of the season is answered
ScheduleOk(p, year) == year \in upstream[p].sched \/ year \notin CatalogYears

\* the caller enters process_historical_data(start_year=2018): the providers'
\* answers during this run are fixed here
RunStart(p) ==
    /\ runs < MaxRuns
    /\ runs' = runs + 1
    /\ \E a \in Answers(app_start_year, current_year) :
          upstream' = [upstream EXCEPT ![p] = a]

\* process_historical_data without its load: every run starts from no ratings
LoadNothing(p) ==
    /\ pc[p] = "load"
    /\ elo' = [elo EXCEPT ![p] = EmptyMap]
    /\ cursor' = [cursor EXCEPT ![p] =
                    [year |-> app_start_year, race |-> 0, year_results |-> <<>>]]
    /\ pc' = [pc EXCEPT ![p] = "collect"]
    /\ UNCHANGED <<engine, db, now, runs, upstream, all_races, log, save, txn,
                   prev, view>>

\* existing_ratings = db.get_ratings(); elo.ratings = ... .to_dict()
Load(p) ==
    /\ pc[p] = "load"
    /\ elo' = [elo EXCEPT ![p] = get_ratings(Visible(db, txn[p]))]
    /\ cursor' = [cursor EXCEPT ![p] =
                    [year |-> app_start_year, race |-> 0, year_results |-> <<>>]]
    /\ pc' = [pc EXCEPT ![p] = "collect"]
    /\ UNCHANGED <<engine, db, now, runs, upstream, all_races, log, save, txn,
                   prev, view>>

\* _process_year returned `races` as the frame so far: the loop of
\* get_all_historical_data goes on to the next season or returns
YearDone(p, races) ==
    /\ all_races' = [all_races EXCEPT ![p] = races]
    /\ IF cursor[p].year = current_year
       THEN /\ cursor' = [cursor EXCEPT ![p] = NoCursor]
            /\ pc' = [pc EXCEPT ![p] = IF races # <<>> THEN "update" ELSE "nodata"]
       ELSE /\ cursor' = [cursor EXCEPT ![p] =
                            [year |-> @.year + 1, race |-> 0, year_results |-> <<>>]]
            /\ pc' = pc

\* _process_year: the schedule request; an exception makes the season empty
FetchSchedule(p) ==
    /\ pc[p] = "collect"
    /\ cursor[p].race = 0
    /\ IF ScheduleOk(p, cursor[p].year) /\ ScheduleLength(cursor[p].year) > 0
       THEN /\ cursor' = [cursor EXCEPT ![p].race = 1]
            /\ UNCHANGED <<pc, all_races>>
       ELSE YearDone(p, all_races[p])
    /\ UNCHANGED <<engine, db, now, runs, upstream, elo, log, save, txn, prev, view>>

\* _process_year: one pass of "for race_num in range(1, len(schedule) + 1)";
\* after the last one the season's frame, unless empty, is concatenated
CollectRace(p) ==
    /\ pc[p] = "collect"
    /\ cursor[p].race >= 1
    /\ LET year == cursor[p].year
           race_num == cursor[p].race
           race_results == collect_race_results(year, race_num,
                                                FetchOk(p, year, race_num))
           all_year == IF race_results # <<>>
                       THEN cursor[p].year_results
                                \o Tagged(race_results, year, race_num)
                       ELSE cursor[p].year_results
       IN  IF race_num < ScheduleLength(year)
           THEN /\ cursor' = [cursor EXCEPT ![p].race = race_num + 1,
                                            ![p].year_results = all_year]
                /\ UNCHANGED <<pc, all_races>>
           ELSE YearDone(p, IF all_year # <<>> THEN all_races[p] \o all_year
                            ELSE all_races[p])
    /\ UNCHANGED <<engine, db, now, runs, upstream, elo, log, save, txn, prev, view>>

\* one pass of "for (year, race_num), race_group in all_races.groupby(...)":
\* elo.update_ratings(race_group); an exception leaves the function
Update(p) ==
    /\ pc[p] = "update"
    /\ LET groups == GroupBy(all_races[p])
           g == Len(log[p]) + 1
           out == update_ratings(elo[p], groups[g].rows)
       IN  /\ log' = [log EXCEPT ![p] = Append(@, groups[g])]
           /\ elo' = [elo EXCEPT ![p] = out.ratings]
           /\ IF out.raised # ""
              THEN /\ pc' = [pc EXCEPT ![p] = "raised"]
                   /\ view' = [view EXCEPT ![p].status = out.raised]
              ELSE /\ pc' = [pc EXCEPT ![p] =
                               IF g = Len(groups) THEN "save" ELSE "update"]
                   /\ view' = view
    /\ UNCHANGED <<engine, db, now, runs, upstream, cursor, all_races, save, txn, prev>>

\* db.save_ratings(elo.get_driver_ratings()): current_time is read once
BeginSave(p) ==
    /\ pc[p] = "save"
    /\ save' = [save EXCEPT ![p] =
                  [rows |-> get_driver_ratings(elo[p]), current_time |-> now]]
    /\ now' = now + 1
    /\ pc' = [pc EXCEPT ![p] = "saving"]
    /\ UNCHANGED <<engine, db, runs, upstream, cursor, elo, all_races, log, txn,
                   prev, view>>

\* another connection holds the write lock
Locked(p) == \E q \in Procs \ {p} : txn[q] # EmptyMap

\* one pass of "for driver, row in ratings_df.iterrows()": the upsert
SaveRow(p) ==
    /\ pc[p] = "saving"
    /\ ~Locked(p)
    /\ \E driver \in NextRows(save[p].rows) :
          LET w == ExecuteUpsert(db, txn[p], driver, save[p].rows[driver],
                                 save[p].current_time)
          IN  /\ db' = w[1]
              /\ txn' = [txn EXCEPT ![p] = w[2]]
              /\ save' = [save EXCEPT ![p].rows =
                            [d \in (DOMAIN @) \ {driver} |-> @[d]]]
    /\ UNCHANGED <<engine, now, runs, pc, upstream, cursor, elo, all_races, log,
                   prev, view>>

\* the exception leaves process_historical_data: its connection goes away
\* with the transaction open, which rolls the transaction back
Abort(p, error) ==
    /\ txn' = [txn EXCEPT ![p] = EmptyMap]
    /\ pc' = [pc EXCEPT ![p] = "raised"]
    /\ view' = [view EXCEPT ![p].status = error]

\* a storage write (an upsert or the commit) fails
SaveFail(p) ==
    /\ pc[p] = "saving"
    /\ Abort(p, "StorageError")
    /\ UNCHANGED <<engine, db, now, runs, upstream, cursor, elo, all_races, log,
                   save, prev>>

\* an upsert finds the table locked by another connection until its busy
\* timeout expires
SaveBusy(p) ==
    /\ pc[p] = "saving"
    /\ save[p].rows # EmptyMap
    /\ Locked(p)
    /\ Abort(p, "OperationalError")
    /\ UNCHANGED <<engine, db, now, runs, upstream, cursor, elo, all_races, log,
                   save, prev>>

\* self.conn.commit(), then db.close() and the return
Commit(p) ==
    /\ pc[p] = "saving"
    /\ save[p].rows = EmptyMap
    /\ db' = CommitRows(db, txn[p])
    /\ txn' = [txn EXCEPT ![p] = EmptyMap]
    /\ pc' = [pc EXCEPT ![p] = "done"]
    /\ view' = [view EXCEPT ![p].status = "saved"]
    /\ UNCHANGED <<engine, now, runs, upstream, cursor, elo, all_races, log,
                   save, prev>>

\* "No race data was collected.": db.close() and the return
NoData(p) ==
    /\ pc[p] = "nodata"
    /\ pc' = [pc EXCEPT ![p] = "done"]
    /\ view' = [view EXCEPT ![p].status = "nodata"]
    /\ UNCHANGED <<engine, db, now, runs, upstream, cursor, elo, all_races, log,
                   save, txn, prev>>

\* the objects of the finished call go away
Forget(p) ==
    /\ upstream' = [upstream EXCEPT ![p] = NoAnswers]
    /\ cursor' = [cursor EXCEPT ![p] = NoCursor]
    /\ elo' = [elo EXCEPT ![p] = EmptyMap]
    /\ all_races' = [all_races EXCEPT ![p] = <<>>]
    /\ log' = [log EXCEPT ![p] = <<>>]
    /\ save' = [save EXCEPT ![p] = NoSave]

-----------------------------------------------------------------------------
(* The script src/elo_calculator.py, run again and again, one run at a time *)

\* python elo_calculator.py: process_historical_data(start_year=2018)
CliStart ==
    /\ pc["cli"] = "idle"
    /\ RunStart("cli")
    /\ pc' = [pc EXCEPT !["cli"] = "load"]
    /\ UNCHANGED <<engine, db, now, cursor, elo, all_races, log, save, txn,
                   prev, view>>

\* the script ends, having printed the ratings or died of the exception
CliFinish ==
    /\ pc["cli"] \in {"done", "raised"}
    /\ prev' = IF view["cli"].status = "saved"
               THEN [saved |-> TRUE, res |-> upstream["cli"].res, store |-> db]
               ELSE prev
    /\ Forget("cli")
    /\ view' = [view EXCEPT !["cli"] = NoView]
    /\ pc' = [pc EXCEPT !["cli"] = "idle"]
    /\ UNCHANGED <<engine, db, now, runs, txn>>

PipeNext ==
    \/ CliStart
    \/ Load("cli")
    \/ FetchSchedule("cli")
    \/ CollectRace("cli")
    \/ Update("cli")
    \/ BeginSave("cli")
    \/ SaveRow("cli")
    \/ SaveFail("cli")
    \/ Commit("cli")
    \/ NoData("cli")
    \/ CliFinish

PipeInit == engine = EngineIdle /\ CallersInit

SpecPipe == PipeInit /\ [][PipeNext]_vars

-----------------------------------------------------------------------------
(* Claims about the pipeline run by the script (SpecPipe) *)

\* the events of a run that yield records, in (season, event number) order,
\* each with the frame the collector makes of it
YieldedEvents(res) ==
    LET keys == SortKeys(res)
    IN  [i \in 1..Len(keys) |->
            GroupRecord(keys[i], collect_race_results(keys[i][1], keys[i][2], TRUE))]

RECURSIVE FoldEvents(_, _)
FoldEvents(ratings, events) ==
    IF events = <<>> THEN ratings
    ELSE FoldEvents(update_ratings(ratings, Head(events).rows).ratings,
                    Tail(events))

StoredRatings(store) == [d \in DOMAIN store |-> store[d].elo_rating]

\* the ratings a load makes of the rows of a table
RatingsSavedIn(store) ==
    [d \in DOMAIN store |->
        IF store[d].elo_rating.kind = "num" THEN store[d].elo_rating
        ELSE IF \E e \in DOMAIN store : store[e].elo_rating.kind = "num"
        THEN NaN ELSE NoneValue]

SecondRunOverSameSpan ==
    /\ pc["cli"] = "done"
    /\ view["cli"].status = "saved"
    /\ prev.saved
    /\ upstream["cli"].res = prev.res

\* C4: a second run over a span already processed and saved is not
\* idempotent: it starts from the ratings the first run saved and applies
\* every event of the span again, so the stored ratings after it are the fold
\* of the span's events over the first run's final ratings.
C4_RerunFoldsOverSaved ==
    SecondRunOverSameSpan =>
        LET again == FoldEvents(RatingsSavedIn(prev.store),
                                YieldedEvents(prev.res))
        IN  StoredRatings(db) = [d \in DOMAIN again |-> ToSql(again[d])]

\* C4 witness: a second run over the same events has saved ratings that
\* differ from the ones the first run left
C4_Witness ==
    /\ SecondRunOverSameSpan
    /\ prev.res # {}
    /\ \E d \in DOMAIN prev.store :
          /\ prev.store[d].elo_rating.kind = "num"
          /\ db[d].elo_rating.kind = "num"
          /\ db[d].elo_rating # prev.store[d].elo_rating

LogKeys(p) == [i \in 1..Len(log[p]) |-> <<log[p][i].Year, log[p][i].RaceNumber>>]

\* C7: within one run update_ratings is invoked on the collected events in
\* strictly ascending (season, event number) order, each collected event
\* exactly once, and an event only after every earlier event of the span that
\* yielded records.
C7_ChronologicalOrder ==
    LET keys == LogKeys("cli")
        res == upstream["cli"].res
    IN  /\ \A i, j \in 1..Len(keys) : i < j => KeyLess(keys[i], keys[j])
        /\ \A i \in 1..Len(keys) :
              /\ keys[i] \in res
              /\ Untagged(log["cli"][i].rows)
                    = collect_race_results(keys[i][1], keys[i][2], TRUE)
              /\ \A e \in res : KeyLess(e, keys[i]) =>
                    \E j \in 1..Len(keys) : j < i /\ keys[j] = e
        /\ pc["cli"] \in {"save", "saving", "done"} =>
              {keys[i] : i \in 1..Len(keys)} = res

\* C7 witness: a finished run that processed events of two seasons
C7_Witness ==
    /\ pc["cli"] = "done"
    /\ Len(log["cli"]) >= 3
    /\ log["cli"][1].Year < log["cli"][Len(log["cli"])].Year

\* C9: when a storage write fails part-way through save_ratings the failure
\* leaves process_historical_data as an exception and the persisted table is
\* as it was before the run: no part of the new ratings is visible to a
\* later load.
C9_SaveIsAllOrNothing ==
    pc["cli"] \in {"saving", "raised"} =>
        /\ db = prev.store
        /\ pc["cli"] = "raised" => txn["cli"] = EmptyMap

\* C9 witness: a save has failed after some but not all rows were written,
\* over a table an earlier run had filled
C9_Witness ==
    /\ pc["cli"] = "raised"
    /\ view["cli"].status = "StorageError"
    /\ prev.saved
    /\ save["cli"].rows # EmptyMap
    /\ DOMAIN save["cli"].rows # DOMAIN elo["cli"]

-----------------------------------------------------------------------------
(* The script src/elo.py: main() *)

\* python elo.py: main() with F1DataCollector(start_year=2014, end_year=2025)
MainStart ==
    /\ pc["elo_main"] = "idle"
    /\ runs < MaxRuns
    /\ runs' = runs + 1
    /\ \E a \in Answers(main_start_year, main_end_year) :
          upstream' = [upstream EXCEPT !["elo_main"] = a]
    /\ cursor' = [cursor EXCEPT !["elo_main"] =
                    [year |-> main_start_year, race |-> 0, year_results |-> <<>>]]
    /\ pc' = [pc EXCEPT !["elo_main"] = "main"]
    /\ UNCHANGED <<engine, db, now, elo, all_races, log, save, txn, prev, view>>

\* "for year in range(...)" goes on to the next season, or the loop ends and
\* the final ratings are printed and written to elo.csv
MainNextYear ==
    IF cursor["elo_main"].year = main_end_year
    THEN /\ cursor' = [cursor EXCEPT !["elo_main"] = NoCursor]
         /\ pc' = [pc EXCEPT !["elo_main"] = "done"]
    ELSE /\ cursor' = [cursor EXCEPT !["elo_main"] =
                         [year |-> @.year + 1, race |-> 0, year_results |-> <<>>]]
         /\ pc' = pc

\* the schedule request of a season; an exception is caught by the season's
\* "except Exception ... continue"
MainFetchSchedule ==
    /\ pc["elo_main"] = "main"
    /\ cursor["elo_main"].race = 0
    /\ LET year == cursor["elo_main"].year
       IN  IF ScheduleOk("elo_main", year) /\ ScheduleLength(year) > 0
           THEN /\ cursor' = [cursor EXCEPT !["elo_main"].race = 1]
                /\ pc' = pc
           ELSE MainNextYear
    /\ UNCHANGED <<engine, db, now, runs, upstream, elo, all_races, log, save,
                   txn, prev, view>>

\* one pass of "for race_number in range(1, total_races + 1)": the results
\* are collected and, unless empty, handed to update_ratings; an exception
\* of update_ratings is caught by the season's "except", which goes on to the
\* next season
MainRace ==
    /\ pc["elo_main"] = "main"
    /\ cursor["elo_main"].race >= 1
    /\ LET year == cursor["elo_main"].year
           race_number == cursor["elo_main"].race
           race_result == collect_race_results(year, race_number,
                              FetchOk("elo_main", year, race_number))
           out == elo_update_ratings(elo["elo_main"], race_result)
       IN  IF race_result = <<>>
           THEN /\ UNCHANGED <<elo, log>>
                /\ IF race_number < ScheduleLength(year)
                   THEN /\ cursor' = [cursor EXCEPT !["elo_main"].race = race_number + 1]
                        /\ pc' = pc
                   ELSE MainNextYear
           ELSE /\ elo' = [elo EXCEPT !["elo_main"] = out.ratings]
                /\ log' = [log EXCEPT !["elo_main"] =
                             Append(@, GroupRecord(<<year, race_number>>, race_result))]
                /\ IF out.raised = "" /\ race_number < ScheduleLength(year)
                   THEN /\ cursor' = [cursor EXCEPT !["elo_main"].race = race_number + 1]
                        /\ pc' = pc
                   ELSE MainNextYear
    /\ UNCHANGED <<engine, db, now, runs, upstream, all_races, save, txn, prev, view>>

\* the script ends
MainFinish ==
    /\ pc["elo_main"] = "done"
    /\ Forget("elo_main")
    /\ pc' = [pc EXCEPT !["elo_main"] = "idle"]
    /\ UNCHANGED <<engine, db, now, runs, txn, prev, view>>

MainNext == MainStart \/ MainFetchSchedule \/ MainRace \/ MainFinish

SpecMain == PipeInit /\ [][MainNext]_vars

-----------------------------------------------------------------------------
(* Claim about the scripts' handling of provider failures (SpecMain) *)

\* C8: a fetch failure or an empty or unusable result for one event removes
\* only that event from the processed sequence: the run does not raise, and
\* every other event of the span that yields records, later events of the
\* same season and the events of later seasons included, is still collected
\* and processed.
C8_OnlyTheFailedEventIsSkipped ==
    \A p \in {"cli", "elo_main"} :
        pc[p] \in {"done", "raised"} =>
            /\ view[p].status \notin {"TypeError", "ZeroDivisionError"}
            /\ LogKeys(p) = SortKeys(upstream[p].res)

-----------------------------------------------------------------------------
(* src/app.py: the cron job and the two routes, each on a thread of its own *)

\* scheduled_update fires (no second instance while one is running)
ScheduledStart ==
    /\ pc["scheduled_update"] = "idle"
    /\ RunStart("scheduled_update")
    /\ pc' = [pc EXCEPT !["scheduled_update"] = "load"]
    /\ view' = [view EXCEPT !["scheduled_update"] = NoView]
    /\ UNCHANGED <<engine, db, now, cursor, elo, all_races, log, save, txn, prev>>

\* "Update complete", or the exception is logged
ScheduledFinish ==
    /\ pc["scheduled_update"] \in {"done", "raised"}
    /\ Forget("scheduled_update")
    /\ pc' = [pc EXCEPT !["scheduled_update"] = "idle"]
    /\ UNCHANGED <<engine, db, now, runs, txn, prev, view>>

\* POST /force-update
ForceStart ==
    /\ pc["force_update"] = "idle"
    /\ RunStart("force_update")
    /\ pc' = [pc EXCEPT !["force_update"] = "load"]
    /\ view' = [view EXCEPT !["force_update"] = NoView]
    /\ UNCHANGED <<engine, db, now, cursor, elo, all_races, log, save, txn, prev>>

\* {"status": "success"} or {"status": "error"}, 500
ForceFinish ==
    /\ pc["force_update"] \in {"done", "raised"}
    /\ Forget("force_update")
    /\ view' = [view EXCEPT !["force_update"].status =
                  IF pc["force_update"] = "done" THEN "success" ELSE "error"]
    /\ pc' = [pc EXCEPT !["force_update"] = "idle"]
    /\ UNCHANGED <<engine, db, now, runs, txn, prev>>

\* GET /: ratings = db.get_ratings(); if ratings.empty: process_historical_data
IndexStart ==
    /\ pc["index"] = "idle"
    /\ runs < MaxRuns
    /\ runs' = runs + 1
    /\ view' = [view EXCEPT !["index"] = NoView]
    /\ IF DOMAIN get_ratings(db) = {}
       THEN /\ \E a \in Answers(app_start_year, current_year) :
                  upstream' = [upstream EXCEPT !["index"] = a]
            /\ pc' = [pc EXCEPT !["index"] = "load"]
       ELSE /\ upstream' = upstream
            /\ pc' = [pc EXCEPT !["index"] = "render"]
    /\ UNCHANGED <<engine, db, now, cursor, elo, all_races, log, save, txn, prev>>

\* last_updated = db.get_last_update_time(); render_template('index.html')
IndexRender ==
    /\ pc["index"] \in {"render", "done"}
    /\ view' = [view EXCEPT !["index"] =
                  [status |-> "ok",
                   last_updated |-> get_last_update_time(db),
                   table |-> db]]
    /\ Forget("index")
    /\ pc' = [pc EXCEPT !["index"] = "idle"]
    /\ UNCHANGED <<engine, db, now, runs, txn, prev>>

\* render_template('error.html'), 500
IndexError ==
    /\ pc["index"] = "raised"
    /\ view' = [view EXCEPT !["index"].status = "error"]
    /\ Forget("index")
    /\ pc' = [pc EXCEPT !["index"] = "idle"]
    /\ UNCHANGED <<engine, db, now, runs, txn, prev>>

AppNext ==
    \/ ScheduledStart \/ ScheduledFinish
    \/ ForceStart \/ ForceFinish
    \/ IndexStart \/ IndexRender \/ IndexError
    \/ \E p \in AppProcs :
          \/ Load(p) \/ FetchSchedule(p) \/ CollectRace(p) \/ Update(p)
          \/ BeginSave(p) \/ SaveRow(p) \/ SaveFail(p) \/ SaveBusy(p)
          \/ Commit(p) \/ NoData(p)

SpecApp == PipeInit /\ [][AppNext]_vars

-----------------------------------------------------------------------------
(* Claims about src/app.py (SpecApp) *)

\* a run has loaded the stored ratings and not yet saved or given up
InFlight(p) == pc[p] \in {"collect", "update", "nodata", "save", "saving"}

\* C3: at most one pipeline run is between its load of the stored ratings and
\* its save at any time: the scheduled trigger, the manual /force-update
\* trigger and the index page's run-on-empty-store are serialized.
C3_OneRunInFlight == Cardinality({p \in Procs : InFlight(p)}) <= 1

\* C6: on a table with no rows get_ratings returns an empty snapshot and
\* get_last_update_time returns the "Never" sentinel, not None; on a table
\* with rows get_last_update_time returns the greatest last_updated.
C6_NeverSentinel ==
    view["index"].status = "ok" =>
        LET table == view["index"].table
        IN  IF DOMAIN table = {}
            THEN /\ get_ratings(table) = EmptyMap
                 /\ view["index"].last_updated = Never
            ELSE /\ view["index"].last_updated.kind = "ts"
                 /\ \A d \in DOMAIN table :
                       table[d].last_updated <= view["index"].last_updated.v
                 /\ \E d \in DOMAIN table :
                       table[d].last_updated = view["index"].last_updated.v

-----------------------------------------------------------------------------
(* DatabaseManager on its own: a client saves one ratings frame after       *)
(* another into the table, starting from the empty table.                   *)

\* frames a client may hand to save_ratings
SavedFrames ==
    UNION {[S -> {Num((initial_rating + 12) * RatingScale),
                  Num((initial_rating - 12) * RatingScale), NaN}] :
           S \in SUBSET Drivers}

\* db.save_ratings(frame)
StoreCall ==
    /\ pc["save_caller"] = "idle"
    /\ runs < MaxRuns
    /\ runs' = runs + 1
    /\ \E frame \in SavedFrames : elo' = [elo EXCEPT !["save_caller"] = frame]
    /\ pc' = [pc EXCEPT !["save_caller"] = "save"]
    /\ UNCHANGED <<engine, db, now, upstream, cursor, all_races, log, save, txn,
                   prev, view>>

\* the call returned or raised
StoreReturn ==
    /\ pc["save_caller"] \in {"done", "raised"}
    /\ Forget("save_caller")
    /\ view' = [view EXCEPT !["save_caller"] = NoView]
    /\ pc' = [pc EXCEPT !["save_caller"] = "idle"]
    /\ UNCHANGED <<engine, db, now, runs, txn, prev>>

StoreNext ==
    \/ StoreCall
    \/ BeginSave("save_caller")
    \/ SaveRow("save_caller")
    \/ SaveFail("save_caller")
    \/ Commit("save_caller")
    \/ StoreReturn

SpecStore == PipeInit /\ [][StoreNext]_vars

\* C5: save_ratings never deletes a row: every competitor stored before the
\* call is stored after it, competitors absent from the saved snapshot keep
\* their rating and last_updated, and every competitor of the snapshot gets
\* the snapshot's rating (nan as SQLite stores it, NULL) and one and the same
\* timestamp; so the set of stored competitors only grows.
C5_SaveIsAdditiveMerge ==
    [][ /\ DOMAIN db \subseteq DOMAIN db'
        /\ \A p \in Procs :
              (pc[p] = "saving" /\ pc'[p] = "done") =>
                  /\ DOMAIN db' = (DOMAIN db) \cup (DOMAIN elo[p])
                  /\ \A d \in DOMAIN db' :
                        IF d \in DOMAIN elo[p]
                        THEN db'[d] = StoreRow(ToSql(elo[p][d]),
                                               save[p].current_time)
                        ELSE db'[d] = db[d] ]_vars

\* C5 witness: a save has committed a snapshot that lacks a competitor the
\* table held, and holds one the table held with another rating
C5_Witness ==
    /\ pc["save_caller"] = "done"
    /\ view["save_caller"].status = "saved"
    /\ (DOMAIN db) \ (DOMAIN elo["save_caller"]) # {}
    /\ \E d \in DOMAIN elo["save_caller"] : db[d].last_updated > 1

=============================================================================
